---- MODULE Spec2Model ----
(***************************************************************************)
(* Model of the starforged-bot dice engine: the logos lexer and the        *)
(* parser of parse_roll_spec.rs, the roll types of rolls.rs and the        *)
(* command handlers of main.rs.                                            *)
(*                                                                         *)
(* Strings are sequences of one-character strings.  Option<T> of a number  *)
(* is the number or None.  Every handler runs on one message: Init draws   *)
(* the message, one action per way through the handler produces the reply. *)
(***************************************************************************)
EXTENDS Integers, Sequences, FiniteSets, TLC

VARIABLES pc,        \* position of the handler: "start", "parsed", "replied",
                     \* "sent", "panic"
          content,   \* msg.content
          spec,      \* the Result<RollSpec, ()> of parse (custom_roll)
          drawn,     \* CustomRoll::random: `rolls` as pushed, before the sort
          roll,      \* the roll struct the handler built
          response,  \* the pieces of the reply, in order
          popped     \* what `string.pop().unwrap()` removed in CustomRoll's fmt

vars == <<pc, content, spec, drawn, roll, response, popped>>

----------------------------------------------------------------------------
(* Bounds of the model. *)

\* longest roll specification text after the command word
MaxSpecLen == 6
\* most dice a checked custom roll draws
MaxDice == 3
\* most faces of a die a checked custom roll draws
MaxDieSize == 3
\* largest number a checked action, progress or oracle message carries alone
MaxArgValue == 257
\* most arguments of a checked action, progress or oracle message
MaxArgs == 2
\* most draws of a checked oracle roll
MaxOracleRolls == 2

(* Number types. *)
InputTypeBits == 8
OutputTypeBits == 32
InputTypeMax == 2^InputTypeBits - 1

None == -1
Overflow == -2

\* x fits OutputType (u32); written without 2^32, which is no TLC integer
FitsOutputType(x) == (x \div 2^16) < 2^(OutputTypeBits - 16)

\* `+` on OutputType: an overflow aborts or wraps with the build
OutputAdd(a, b) ==
    IF a = Overflow \/ b = Overflow THEN Overflow
    ELSE IF FitsOutputType(a + b) THEN a + b ELSE Overflow

Min(a, b) == IF a <= b THEN a ELSE b

----------------------------------------------------------------------------
(* Characters and text. *)

Digits == {"0", "1", "2", "3", "4", "5", "6", "7", "8", "9"}
Whitespace == {" "}

DigitVal(c) ==
    CASE c = "0" -> 0 [] c = "1" -> 1 [] c = "2" -> 2 [] c = "3" -> 3
      [] c = "4" -> 4 [] c = "5" -> 5 [] c = "6" -> 6 [] c = "7" -> 7
      [] c = "8" -> 8 [] c = "9" -> 9

\* the texts the checked messages carry after the command word
SpecChars == {"0", "2", "3", "d", "D", "+", " ", "x"}

Slice(s, from, to) == SubSeq(s, from, to)

\* str::parse::<u8>: optional '+', then digits accumulated with checked
\* multiply and add; [ok, val]
\* ParseDigits with wrapping arithmetic in place of the checked one
RECURSIVE ParseDigitsWrapping(_, _, _)
ParseDigitsWrapping(s, i, acc) ==
    IF i > Len(s) THEN [ok |-> TRUE, val |-> acc]
    ELSE IF s[i] \notin Digits THEN [ok |-> FALSE, val |-> 0]
    ELSE ParseDigitsWrapping(s, i + 1,
                             (acc * 10 + DigitVal(s[i])) % (InputTypeMax + 1))

RECURSIVE ParseDigits(_, _, _)
ParseDigits(s, i, acc) ==
    IF i > Len(s) THEN [ok |-> TRUE, val |-> acc]
    ELSE IF s[i] \notin Digits THEN [ok |-> FALSE, val |-> 0]
    ELSE LET m == acc * 10
             a == m + DigitVal(s[i])
         IN  IF m > InputTypeMax \/ a > InputTypeMax
             THEN [ok |-> FALSE, val |-> 0]
             ELSE ParseDigits(s, i + 1, a)

ParseInputType(s) ==
    IF s = <<>> THEN [ok |-> FALSE, val |-> 0]
    ELSE IF s[1] = "+"
         THEN IF Len(s) = 1 THEN [ok |-> FALSE, val |-> 0]
              ELSE ParseDigits(s, 2, 0)
         ELSE ParseDigits(s, 1, 0)

\* str::split_once(ch): [found, left, right]
RECURSIVE FindChar(_, _, _)
FindChar(s, ch, i) ==
    IF i > Len(s) THEN 0
    ELSE IF s[i] = ch THEN i ELSE FindChar(s, ch, i + 1)

SplitOnce(s, ch) ==
    LET i == FindChar(s, ch, 1)
    IN  IF i = 0 THEN [found |-> FALSE, left |-> <<>>, right |-> <<>>]
        ELSE [found |-> TRUE, left |-> Slice(s, 1, i - 1),
              right |-> Slice(s, i + 1, Len(s))]

\* the first whitespace character from i on, Len(s) + 1 if there is none
RECURSIVE FindWhitespace(_, _)
FindWhitespace(s, i) ==
    IF i > Len(s) \/ s[i] \in Whitespace THEN i ELSE FindWhitespace(s, i + 1)

\* str::trim
RECURSIVE TrimStart(_)
TrimStart(s) ==
    IF s # <<>> /\ Head(s) \in Whitespace THEN TrimStart(Tail(s)) ELSE s

RECURSIVE TrimEnd(_)
TrimEnd(s) ==
    IF s # <<>> /\ s[Len(s)] \in Whitespace
    THEN TrimEnd(Slice(s, 1, Len(s) - 1)) ELSE s

Trim(s) == TrimEnd(TrimStart(s))

\* str::split_whitespace: the maximal runs of non-whitespace characters
RECURSIVE SplitWhitespaceFrom(_, _)
SplitWhitespaceFrom(s, pos) ==
    LET p == IF pos <= Len(s) /\ s[pos] \in Whitespace THEN pos + 1 ELSE pos
    IN  IF pos > Len(s) THEN <<>>
        ELSE IF p > pos THEN SplitWhitespaceFrom(s, p)
        ELSE LET i == FindWhitespace(s, pos)
             IN  <<Slice(s, pos, i - 1)>> \o SplitWhitespaceFrom(s, i)

SplitWhitespace(s) == SplitWhitespaceFrom(s, 1)

\* the digits of a number, for the numbers the checked messages carry
DigitChar(d) == CHOOSE c \in Digits : DigitVal(c) = d

RECURSIVE Decimal(_)
Decimal(n) ==
    IF n < 10 THEN <<DigitChar(n)>>
    ELSE Decimal(n \div 10) \o <<DigitChar(n % 10)>>

----------------------------------------------------------------------------
(* The lexer: Token and its callbacks. *)

Tok(type, a, b) == [type |-> type, a |-> a, b |-> b]
TokError == Tok("Error", 0, 0)
TokPlus == Tok("Plus", 0, 0)

\* parse_xdy: the (count, size) of an `XdY` slice, ok = FALSE for None
parse_xdy(slice) ==
    LET lower == SplitOnce(slice, "d")
        parts == IF lower.found THEN lower ELSE SplitOnce(slice, "D")
        count == IF parts.left = <<>> THEN [ok |-> TRUE, val |-> 1]
                 ELSE ParseInputType(parts.left)
        size  == ParseInputType(parts.right)
    IN  IF ~count.ok THEN [ok |-> FALSE, count |-> 0, size |-> 0]
        ELSE IF ~size.ok THEN [ok |-> FALSE, count |-> 0, size |-> 0]
        ELSE [ok |-> TRUE, count |-> count.val, size |-> size.val]

\* the end (exclusive) of the longest run of characters of `set` from i
RECURSIVE RunEnd(_, _, _)
RunEnd(s, i, set) ==
    IF i <= Len(s) /\ s[i] \in set THEN RunEnd(s, i + 1, set) ELSE i

\* Lexer::next from position pos: the next token and the position after it,
\* longest match first; end = TRUE when the input is exhausted.  A token the
\* patterns do not match, or whose callback fails, is Token::Error.
LexNext(s, pos) ==
    LET p == RunEnd(s, pos, Whitespace)
    IN  IF p > Len(s) THEN [end |-> TRUE, tok |-> TokError, next |-> p]
        ELSE
        LET e == RunEnd(s, p, Digits)
            isXdY == /\ e + 1 <= Len(s)
                     /\ s[e] \in {"d", "D"}
                     /\ s[e + 1] \in Digits
            f == RunEnd(s, e + 1, Digits)
        IN  IF s[p] = "+" THEN [end |-> FALSE, tok |-> TokPlus, next |-> p + 1]
            ELSE IF isXdY
            THEN LET r == parse_xdy(Slice(s, p, f - 1))
                 IN  [end |-> FALSE,
                      tok |-> IF r.ok THEN Tok("XdY", r.count, r.size)
                              ELSE TokError,
                      next |-> f]
            ELSE IF e > p
            THEN LET r == ParseInputType(Slice(s, p, e - 1))
                 IN  [end |-> FALSE,
                      tok |-> IF r.ok THEN Tok("Bonus", r.val, 0)
                              ELSE TokError,
                      next |-> e]
            ELSE [end |-> FALSE, tok |-> TokError, next |-> p + 1]

----------------------------------------------------------------------------
(* The parser. *)

ParseErr == [ok |-> FALSE, dice |-> <<>>, bonuses |-> <<>>]

\* PushCopies inserting at the front of the list
RECURSIVE PushCopiesFront(_, _, _)
PushCopiesFront(dice, count, size) ==
    IF count = 0 THEN dice
    ELSE PushCopiesFront(<<size>> \o dice, count - 1, size)

\* for _ in 0..count { dice.push(size) }
RECURSIVE PushCopies(_, _, _)
PushCopies(dice, count, size) ==
    IF count = 0 THEN dice ELSE PushCopies(Append(dice, size), count - 1, size)

\* ParseLoop without the check of the token that follows a term
RECURSIVE ParseLoopAnySeparator(_, _, _, _)
ParseLoopAnySeparator(s, pos, dice, bonuses) ==
    LET t == LexNext(s, pos)
    IN  IF t.end
        THEN IF dice = <<>> THEN ParseErr
             ELSE [ok |-> TRUE, dice |-> dice, bonuses |-> bonuses]
        ELSE IF t.tok.type \in {"Plus", "Error"} THEN ParseErr
        ELSE
        LET dice2 == IF t.tok.type = "XdY"
                     THEN PushCopies(dice, t.tok.a, t.tok.b) ELSE dice
            bonuses2 == IF t.tok.type = "Bonus"
                        THEN Append(bonuses, t.tok.a) ELSE bonuses
            sep == LexNext(s, t.next)
        IN  IF sep.end
            THEN IF dice2 = <<>> THEN ParseErr
                 ELSE [ok |-> TRUE, dice |-> dice2, bonuses |-> bonuses2]
            ELSE ParseLoopAnySeparator(s, sep.next, dice2, bonuses2)

\* ParseLoop without the check that there is at least one die
RECURSIVE ParseLoopNoDiceCheck(_, _, _, _)
ParseLoopNoDiceCheck(s, pos, dice, bonuses) ==
    LET t == LexNext(s, pos)
    IN  IF t.end
        THEN [ok |-> TRUE, dice |-> dice, bonuses |-> bonuses]
        ELSE IF t.tok.type \in {"Plus", "Error"} THEN ParseErr
        ELSE
        LET dice2 == IF t.tok.type = "XdY"
                     THEN PushCopies(dice, t.tok.a, t.tok.b) ELSE dice
            bonuses2 == IF t.tok.type = "Bonus"
                        THEN Append(bonuses, t.tok.a) ELSE bonuses
            sep == LexNext(s, t.next)
        IN  IF sep.end
            THEN [ok |-> TRUE, dice |-> dice2, bonuses |-> bonuses2]
            ELSE IF sep.tok # TokPlus THEN ParseErr
            ELSE ParseLoopNoDiceCheck(s, sep.next, dice2, bonuses2)

\* the while loop of parse, from lexer position pos
RECURSIVE ParseLoop(_, _, _, _)
ParseLoop(s, pos, dice, bonuses) ==
    LET t == LexNext(s, pos)
    IN  IF t.end
        THEN IF dice = <<>> THEN ParseErr
             ELSE [ok |-> TRUE, dice |-> dice, bonuses |-> bonuses]
        ELSE IF t.tok.type \in {"Plus", "Error"} THEN ParseErr
        ELSE
        LET dice2 == IF t.tok.type = "XdY"
                     THEN PushCopies(dice, t.tok.a, t.tok.b) ELSE dice
            bonuses2 == IF t.tok.type = "Bonus"
                        THEN Append(bonuses, t.tok.a) ELSE bonuses
            sep == LexNext(s, t.next)
        IN  IF sep.end
            THEN IF dice2 = <<>> THEN ParseErr
                 ELSE [ok |-> TRUE, dice |-> dice2, bonuses |-> bonuses2]
            ELSE IF sep.tok # TokPlus THEN ParseErr
            ELSE ParseLoop(s, sep.next, dice2, bonuses2)

parse(input) == ParseLoop(input, 1, <<>>, <<>>)

\* the tokens Token::lexer(input) yields, up to and with the first
\* Token::Error (parse reads no token after it)
RECURSIVE TokensFrom(_, _)
TokensFrom(s, pos) ==
    LET t == LexNext(s, pos)
    IN  IF t.end THEN <<>>
        ELSE IF t.tok = TokError THEN <<TokError>>
        ELSE <<t.tok>> \o TokensFrom(s, t.next)

Tokens(s) == TokensFrom(s, 1)

----------------------------------------------------------------------------
(* Random draws. *)

\* rng.gen_range(lo..=hi): any value of the range; the range must not be
\* empty (gen_range panics on an empty range)
GenRange(lo, hi) == lo..hi

----------------------------------------------------------------------------
(* CustomRoll. *)

RolledDie(size, r) == [size |-> size, roll |-> r]

\* the for loop of CustomRoll::random: every way to draw the dice in order
RECURSIVE DrawDice(_)
DrawDice(dice) ==
    IF dice = <<>> THEN {<<>>}
    ELSE LET n == Len(dice)
         IN  {Append(rest, RolledDie(dice[n], r)) :
                 rest \in DrawDice(Slice(dice, 1, n - 1)),
                 r \in GenRange(1, dice[n])}

\* gen_range(1..=die) is reached with an empty range
DrawPanics(dice) == \E i \in 1..Len(dice) : dice[i] < 1

IsDescending(rolls) ==
    \A i \in 1..(Len(rolls) - 1) : rolls[i].size >= rolls[i + 1].size

Injections(n) == {f \in [1..n -> 1..n] : \A i, j \in 1..n : f[i] = f[j] => i = j}

\* the sort with the comparison the other way round: a.size.cmp(&b.size)
SortUnstableBySizeAsc(rolls) ==
    LET n == Len(rolls)
    IN  {s \in {[i \in 1..n |-> rolls[f[i]]] : f \in Injections(n)} :
            \A i \in 1..(n - 1) : s[i].size <= s[i + 1].size}

\* rolls.sort_unstable_by(|a, b| b.size.cmp(&a.size)): the elements in
\* descending order of size; the order of equal elements is not specified
SortUnstableBySizeDesc(rolls) ==
    LET n == Len(rolls)
    IN  {s \in {[i \in 1..n |-> rolls[f[i]]] : f \in Injections(n)} :
            IsDescending(s)}

\* spec.bonuses.into_iter().map(Into::<OutputType>::into).sum()
RECURSIVE SumOutput(_)
SumOutput(values) ==
    IF values = <<>> THEN 0
    ELSE OutputAdd(SumOutput(Tail(values)), Head(values))

\* CustomRoll::dice: the (count, size) groups, or DicePanic
DicePanic == <<[count |-> 0, size |-> 0, panic |-> TRUE]>>
Group(count, size) == [count |-> count, size |-> size, panic |-> FALSE]

\* DiceLoop starting a new group for a die of the size of the last one
RECURSIVE DiceLoopNewGroup(_, _, _, _)
DiceLoopNewGroup(rolls, i, dice, size) ==
    IF i > Len(rolls) THEN dice
    ELSE IF size = None \/ rolls[i].size <= size
         THEN DiceLoopNewGroup(rolls, i + 1,
                               Append(dice, Group(1, rolls[i].size)),
                               rolls[i].size)
    ELSE DicePanic

\* the for loop of CustomRoll::dice, from die i with the groups `dice` so far
RECURSIVE DiceLoop(_, _, _, _)
DiceLoop(rolls, i, dice, size) ==
    IF i > Len(rolls) THEN dice
    ELSE IF size = None \/ rolls[i].size < size
         THEN DiceLoop(rolls, i + 1, Append(dice, Group(1, rolls[i].size)),
                       rolls[i].size)
    ELSE IF rolls[i].size = size
         THEN LET last == dice[Len(dice)]
              IN  DiceLoop(rolls, i + 1,
                           [dice EXCEPT ![Len(dice)] =
                               Group(last.count + 1, last.size)],
                           size)
    ELSE DicePanic

\* `size` starts at OutputType::MAX, above every die: None stands for it
CustomRoll_dice(r) == DiceLoop(r.rolls, 1, <<>>, None)

(* Display: the reply as the list of the pieces written. *)
Piece(kind, a, b) == [kind |-> kind, a |-> a, b |-> b]
NoPiece == Piece("none", 0, 0)

RECURSIVE DicePieces(_)
DicePieces(groups) ==
    IF groups = <<>> THEN <<>>
    ELSE <<Piece(" {}d{}", Head(groups).count, Head(groups).size),
           Piece(" +", 0, 0)>> \o DicePieces(Tail(groups))

RECURSIVE ResultPieces(_)
ResultPieces(rolls) ==
    IF rolls = <<>> THEN <<>>
    ELSE <<Piece(" [{}]", Head(rolls).roll, 0)>> \o ResultPieces(Tail(rolls))

RECURSIVE SumRolls(_)
SumRolls(rolls) ==
    IF rolls = <<>> THEN 0
    ELSE OutputAdd(SumRolls(Slice(rolls, 1, Len(rolls) - 1)),
                   rolls[Len(rolls)].roll)

\* CustomRoll's fmt: [pieces, popped]; `string` starts with "Roll"
CustomRoll_fmt(r) ==
    LET head == <<Piece("Roll", 0, 0)>> \o DicePieces(CustomRoll_dice(r))
        withBonus == IF r.bonus > 0
                     THEN Append(head, Piece(" {}", r.bonus, 0))
                     ELSE Slice(head, 1, Len(head) - 1)
        results == withBonus \o <<Piece(": ", 0, 0)>> \o ResultPieces(r.rolls)
        total == IF r.bonus > 0 THEN OutputAdd(SumRolls(r.rolls), r.bonus)
                 ELSE SumRolls(r.rolls)
        bonus == IF r.bonus > 0 THEN <<Piece(" + {}", r.bonus, 0)>> ELSE <<>>
        tot == IF Len(r.rolls) > 1 \/ r.bonus > 0
               THEN <<Piece("  (Total: {})", total, 0)>> ELSE <<>>
    IN  [pieces |-> results \o bonus \o tot,
         popped |-> IF r.bonus > 0 THEN NoPiece ELSE head[Len(head)]]

----------------------------------------------------------------------------
(* The custom_roll command. *)

NoSpec == ParseErr
NoRoll == [kind |-> "none"]
CustomRoll(rolls, bonus) == [kind |-> "custom", rolls |-> rolls, bonus |-> bonus]

\* the command words: the default prefix and an alias of each command
CustomRollWord == <<"!", "r">>
ActionRollWord == <<"!", "a">>
ProgressRollWord == <<"!", "p">>
OracleRollWord == <<"!", "o">>

\* the command the framework dispatches a message to: its first word
Command(c) == Slice(c, 1, FindWhitespace(c, 1) - 1)

\* the messages the custom_roll handler is run on: the command word alone,
\* or the command word, a space and a text of up to MaxSpecLen characters
IsCustomContent(c) ==
    \/ c = CustomRollWord
    \/ \E k \in 0..MaxSpecLen : \E s \in [1..k -> SpecChars] :
          c = CustomRollWord \o <<" ">> \o s

\* msg.content.split_once(' ') and the trim of what follows
spec_raw(c) == Trim(SplitOnce(c, " ").right)

Init ==
    /\ IsCustomContent(content)
    /\ pc = "start"
    /\ spec = NoSpec
    /\ drawn = <<>>
    /\ roll = NoRoll
    /\ response = <<>>
    /\ popped = NoPiece

\* no space after the command word: "Not enough arguments"
CustomRollNoArgs ==
    /\ pc = "start"
    /\ Command(content) = CustomRollWord
    /\ ~SplitOnce(content, " ").found
    /\ pc' = "replied"
    /\ response' = <<Piece("Not enough arguments (expected 1+, got 0)", 0, 0)>>
    /\ UNCHANGED <<content, spec, drawn, roll, popped>>

\* the text does not parse: "Invalid roll specification"
CustomRollInvalid ==
    /\ pc = "start"
    /\ Command(content) = CustomRollWord
    /\ SplitOnce(content, " ").found
    /\ ~parse(spec_raw(content)).ok
    /\ pc' = "replied"
    /\ spec' = parse(spec_raw(content))
    /\ response' = <<Piece("Invalid roll specification", 0, 0)>>
    /\ UNCHANGED <<content, drawn, roll, popped>>

\* the text parses: the handler goes on to make the roll
CustomRollParsed ==
    /\ pc = "start"
    /\ Command(content) = CustomRollWord
    /\ SplitOnce(content, " ").found
    /\ parse(spec_raw(content)).ok
    /\ pc' = "parsed"
    /\ spec' = parse(spec_raw(content))
    /\ UNCHANGED <<content, drawn, roll, response, popped>>

\* the rolls the model follows to the end
RollBounded(sp) ==
    /\ Len(sp.dice) <= MaxDice
    /\ \A i \in 1..Len(sp.dice) : sp.dice[i] <= MaxDieSize

\* CustomRoll::random draws from an empty range
CustomRollPanic ==
    /\ pc = "parsed"
    /\ RollBounded(spec)
    /\ DrawPanics(spec.dice)
    /\ pc' = "panic"
    /\ UNCHANGED <<content, spec, drawn, roll, response, popped>>

\* the roll is made, formatted and sent (CustomRoll::dice aborts the
\* formatting if the rolls are not in descending order)
CustomRollSend ==
    /\ pc = "parsed"
    /\ RollBounded(spec)
    /\ ~DrawPanics(spec.dice)
    /\ \E d \in DrawDice(spec.dice) :
       \E sorted \in SortUnstableBySizeDesc(d) :
          LET r == CustomRoll(sorted, SumOutput(spec.bonuses))
              out == CustomRoll_fmt(r)
          IN  /\ drawn' = d
              /\ roll' = r
              /\ IF CustomRoll_dice(r) = DicePanic
                 THEN \* "self.rolls was not in descending order!"
                      /\ pc' = "panic"
                      /\ UNCHANGED <<response, popped>>
                 ELSE /\ pc' = "sent"
                      /\ response' = out.pieces
                      /\ popped' = out.popped
    /\ UNCHANGED <<content, spec>>

Next ==
    \/ CustomRollNoArgs
    \/ CustomRollInvalid
    \/ CustomRollParsed
    \/ CustomRollPanic
    \/ CustomRollSend

Spec == Init /\ [][Next]_vars

----------------------------------------------------------------------------
(* ActionRoll, ProgressRoll and OracleRoll. *)

ActionRoll(action_die, bonus, challenge_dice) ==
    [kind |-> "action", action_die |-> action_die, bonus |-> bonus,
     challenge_dice |-> challenge_dice]

ProgressRoll(bonus, challenge_dice) ==
    [kind |-> "progress", bonus |-> bonus, challenge_dice |-> challenge_dice]

OracleRoll(outcomes) == [kind |-> "oracle", outcomes |-> outcomes]

\* `+` on InputType
InputAdd(a, b) ==
    IF a = Overflow \/ b = Overflow THEN Overflow
    ELSE IF a + b <= InputTypeMax THEN a + b ELSE Overflow

\* the score with the sum taken in InputType instead of OutputType
ActionRoll_score_InputType(r) ==
    IF r.bonus = None THEN None
    ELSE LET sum == InputAdd(r.action_die, r.bonus)
         IN  IF sum = Overflow THEN Overflow ELSE Min(sum, 10)

\* ActionRoll::score
ActionRoll_score(r) ==
    IF r.bonus = None THEN None
    ELSE LET sum == OutputAdd(r.action_die, r.bonus)
         IN  IF sum = Overflow THEN Overflow ELSE Min(sum, 10)

\* the outcome with `score >= challenge` in place of `score > challenge`
ActionRoll_outcome_OrEqual(r) ==
    LET score == ActionRoll_score(r)
        higher_than == (IF score >= r.challenge_dice[1] THEN 1 ELSE 0)
                       + (IF score >= r.challenge_dice[2] THEN 1 ELSE 0)
    IN  IF score = None THEN "None"
        ELSE CASE higher_than = 0 -> "Miss"
               [] higher_than = 1 -> "WeakHit"
               [] higher_than = 2 -> "StrongHit"
               [] OTHER -> "unreachable"

\* ActionRoll::outcome, "None" when the score is not known; the loop over
\* the two challenge dice is unrolled
ActionRoll_outcome(r) ==
    LET score == ActionRoll_score(r)
        higher_than == (IF score > r.challenge_dice[1] THEN 1 ELSE 0)
                       + (IF score > r.challenge_dice[2] THEN 1 ELSE 0)
    IN  IF score = None THEN "None"
        ELSE CASE higher_than = 0 -> "Miss"
               [] higher_than = 1 -> "WeakHit"
               [] higher_than = 2 -> "StrongHit"
               [] OTHER -> "unreachable"

\* ProgressRoll::score
ProgressRoll_score(r) ==
    IF r.bonus = None THEN None ELSE Min(r.bonus, 10)

\* ProgressRoll::outcome
ProgressRoll_outcome(r) ==
    LET score == ProgressRoll_score(r)
        higher_than == (IF score > r.challenge_dice[1] THEN 1 ELSE 0)
                       + (IF score > r.challenge_dice[2] THEN 1 ELSE 0)
    IN  IF score = None THEN "None"
        ELSE CASE higher_than = 0 -> "Miss"
               [] higher_than = 1 -> "WeakHit"
               [] higher_than = 2 -> "StrongHit"
               [] OTHER -> "unreachable"

\* Outcome's fmt: the name shown for an outcome
Outcome_fmt(outcome) ==
    CASE outcome = "Miss" -> "Miss"
      [] outcome = "WeakHit" -> "Weak Hit"
      [] outcome = "StrongHit" -> "Strong Hit"

\* is_match of both kinds of roll
is_match(r) == r.challenge_dice[1] = r.challenge_dice[2]

\* ActionRoll's fmt
ActionRoll_fmt(r) ==
    IF r.bonus # None
    THEN <<Piece("***Action Roll: [{}]+{}", r.action_die, r.bonus),
           Piece(" = {}", ActionRoll_score(r), 0),
           Piece(" vs [{}] [{}] (", r.challenge_dice[1], r.challenge_dice[2]),
           Piece(IF is_match(r) THEN "Matched " ELSE "", 0, 0),
           Piece(Outcome_fmt(ActionRoll_outcome(r)), 0, 0),
           Piece(")***", 0, 0)>>
    ELSE <<Piece("***Action Roll: [{}]", r.action_die, 0),
           Piece(" vs [{}] [{}]", r.challenge_dice[1], r.challenge_dice[2]),
           Piece(IF is_match(r) THEN " (Match)" ELSE "", 0, 0),
           Piece("***", 0, 0)>>

\* ProgressRoll's fmt
ProgressRoll_fmt(r) ==
    IF r.bonus # None
    THEN <<Piece("***Progress Roll: {}", ProgressRoll_score(r), 0),
           Piece(" vs [{}] [{}] (", r.challenge_dice[1], r.challenge_dice[2]),
           Piece(IF is_match(r) THEN "Matched " ELSE "", 0, 0),
           Piece(Outcome_fmt(ProgressRoll_outcome(r)), 0, 0),
           Piece(")***", 0, 0)>>
    ELSE <<Piece("***Progress Roll: [{}] [{}]",
                 r.challenge_dice[1], r.challenge_dice[2]),
           Piece(IF is_match(r) THEN " (Match)" ELSE "", 0, 0),
           Piece("***", 0, 0)>>

\* OracleRoll::random: num draws of 1..=100, in order
RECURSIVE OracleDraws(_)
OracleDraws(num) ==
    IF num = 0 THEN {<<>>}
    ELSE {Append(rest, v) : rest \in OracleDraws(num - 1), v \in GenRange(1, 100)}

\* OracleRoll's fmt
RECURSIVE OraclePieces(_)
OraclePieces(outcomes) ==
    IF outcomes = <<>> THEN <<>>
    ELSE <<Piece(" [{}]", Head(outcomes), 0)>> \o OraclePieces(Tail(outcomes))

OracleRoll_fmt(r) ==
    <<Piece("***Oracle Roll:", 0, 0)>> \o OraclePieces(r.outcomes)
        \o <<Piece("***", 0, 0)>>

----------------------------------------------------------------------------
(* The action_roll, progress_roll and oracle_roll commands. *)

\* msg.content.split_whitespace().skip(1)
Args(c) == Tail(SplitWhitespace(c))

\* the arguments of the checked messages with several arguments
ArgTexts == {<<"3">>, <<"1", "0", "0">>, <<"2", "0", "0">>, <<"x">>}

RECURSIVE JoinArgs(_)
JoinArgs(args) ==
    IF args = <<>> THEN <<>> ELSE <<" ">> \o Head(args) \o JoinArgs(Tail(args))

\* the messages a command is run on: the word alone, the word and one
\* number, the word and one text that is no number, the word and several
\* arguments
IsContentOf(word, c, maxValue) ==
    \/ c = word
    \/ \E n \in 0..maxValue : c = word \o <<" ">> \o Decimal(n)
    \/ \E k \in 1..MaxArgs : \E args \in [1..k -> ArgTexts] :
          c = word \o JoinArgs(args)

\* the loop of action_roll over the arguments, from argument i with the sum
\* `bonus` so far; `checks` is whether the build checks `+=` for overflow
\* (it aborts) or not (it wraps)
RECURSIVE AccumulateBonus(_, _, _, _)
AccumulateBonus(args, i, bonus, checks) ==
    IF i > Len(args) THEN [status |-> "ok", bonus |-> bonus, arg |-> <<>>]
    ELSE LET val == ParseInputType(args[i])
             sum == InputAdd(bonus, val.val)
         IN  IF ~val.ok
             THEN [status |-> "invalid", bonus |-> 0, arg |-> args[i]]
             ELSE IF sum # Overflow
             THEN AccumulateBonus(args, i + 1, sum, checks)
             ELSE IF checks
             THEN [status |-> "panic", bonus |-> 0, arg |-> args[i]]
             ELSE AccumulateBonus(args, i + 1,
                                  (bonus + val.val) % (InputTypeMax + 1), checks)

\* the bonus of action_roll: None without arguments
ActionBonus(c, checks) ==
    IF Args(c) = <<>> THEN [status |-> "ok", bonus |-> None, arg |-> <<>>]
    ELSE AccumulateBonus(Args(c), 1, 0, checks)

InitRolls ==
    /\ \/ IsContentOf(ActionRollWord, content, MaxArgValue)
       \/ IsContentOf(ProgressRollWord, content, MaxArgValue)
    /\ pc = "start"
    /\ spec = NoSpec
    /\ drawn = <<>>
    /\ roll = NoRoll
    /\ response = <<>>
    /\ popped = NoPiece

\* an argument is no 8-bit number: "Invalid bonus: {}"
ActionRollInvalid ==
    /\ pc = "start"
    /\ Command(content) = ActionRollWord
    /\ \E checks \in BOOLEAN :
          /\ ActionBonus(content, checks).status = "invalid"
          /\ response' = <<Piece("Invalid bonus: {}", 0, 0)>>
                         \o <<Piece(ActionBonus(content, checks).arg, 0, 0)>>
    /\ pc' = "replied"
    /\ UNCHANGED <<content, spec, drawn, roll, popped>>

\* `bonus += v` overflows in a build that checks for overflow
ActionRollPanic ==
    /\ pc = "start"
    /\ Command(content) = ActionRollWord
    /\ \E checks \in BOOLEAN : ActionBonus(content, checks).status = "panic"
    /\ pc' = "panic"
    /\ UNCHANGED <<content, spec, drawn, roll, response, popped>>

\* the roll is made, formatted and sent
ActionRollSend ==
    /\ pc = "start"
    /\ Command(content) = ActionRollWord
    /\ \E checks \in BOOLEAN :
          /\ ActionBonus(content, checks).status = "ok"
          /\ \E action_die \in GenRange(1, 6) :
             \E c1 \in GenRange(1, 10) : \E c2 \in GenRange(1, 10) :
                LET r == ActionRoll(action_die,
                                    ActionBonus(content, checks).bonus,
                                    <<c1, c2>>)
                IN  /\ roll' = r
                    /\ response' = ActionRoll_fmt(r)
    /\ pc' = "sent"
    /\ UNCHANGED <<content, spec, drawn, popped>>

\* the argument is no 8-bit number: "Invalid progress: {}"
ProgressRollInvalid ==
    /\ pc = "start"
    /\ Command(content) = ProgressRollWord
    /\ Len(Args(content)) = 1
    /\ ~ParseInputType(Args(content)[1]).ok
    /\ pc' = "replied"
    /\ response' = <<Piece("Invalid progress: {}", 0, 0),
                     Piece(Args(content)[1], 0, 0)>>
    /\ UNCHANGED <<content, spec, drawn, roll, popped>>

\* more than one argument: "Too many arguments"
ProgressRollTooMany ==
    /\ pc = "start"
    /\ Command(content) = ProgressRollWord
    /\ Len(Args(content)) > 1
    /\ pc' = "replied"
    /\ response' = <<Piece("Too many arguments (expected 0 or 1, got {})",
                           Len(Args(content)), 0)>>
    /\ UNCHANGED <<content, spec, drawn, roll, popped>>

\* the roll is made, formatted and sent
ProgressRollSend ==
    /\ pc = "start"
    /\ Command(content) = ProgressRollWord
    /\ Len(Args(content)) <= 1
    /\ Len(Args(content)) = 1 => ParseInputType(Args(content)[1]).ok
    /\ \E c1 \in GenRange(1, 10) : \E c2 \in GenRange(1, 10) :
          LET bonus == IF Args(content) = <<>> THEN None
                       ELSE ParseInputType(Args(content)[1]).val
              r == ProgressRoll(bonus, <<c1, c2>>)
          IN  /\ roll' = r
              /\ response' = ProgressRoll_fmt(r)
    /\ pc' = "sent"
    /\ UNCHANGED <<content, spec, drawn, popped>>

NextRolls ==
    \/ ActionRollInvalid
    \/ ActionRollPanic
    \/ ActionRollSend
    \/ ProgressRollInvalid
    \/ ProgressRollTooMany
    \/ ProgressRollSend

SpecRolls == InitRolls /\ [][NextRolls]_vars

InitOracle ==
    /\ IsContentOf(OracleRollWord, content, MaxOracleRolls)
    /\ pc = "start"
    /\ spec = NoSpec
    /\ drawn = <<>>
    /\ roll = NoRoll
    /\ response = <<>>
    /\ popped = NoPiece

\* the argument is no 8-bit number: "Invalid number of rolls: {}"
OracleRollInvalid ==
    /\ pc = "start"
    /\ Command(content) = OracleRollWord
    /\ Len(Args(content)) = 1
    /\ ~ParseInputType(Args(content)[1]).ok
    /\ pc' = "replied"
    /\ response' = <<Piece("Invalid number of rolls: {}", 0, 0),
                     Piece(Args(content)[1], 0, 0)>>
    /\ UNCHANGED <<content, spec, drawn, roll, popped>>

\* more than one argument: "Too many arguments"
OracleRollTooMany ==
    /\ pc = "start"
    /\ Command(content) = OracleRollWord
    /\ Len(Args(content)) > 1
    /\ pc' = "replied"
    /\ response' = <<Piece("Too many arguments (expected 0 or 1, got {})",
                           Len(Args(content)), 0)>>
    /\ UNCHANGED <<content, spec, drawn, roll, popped>>

\* num_rolls of oracle_roll: 1 without an argument
num_rolls(c) ==
    IF Args(c) = <<>> THEN 1 ELSE ParseInputType(Args(c)[1]).val

\* the roll is made, formatted and sent
OracleRollSend ==
    /\ pc = "start"
    /\ Command(content) = OracleRollWord
    /\ Len(Args(content)) <= 1
    /\ Len(Args(content)) = 1 => ParseInputType(Args(content)[1]).ok
    /\ num_rolls(content) <= MaxOracleRolls
    /\ \E outcomes \in OracleDraws(num_rolls(content)) :
          /\ roll' = OracleRoll(outcomes)
          /\ response' = OracleRoll_fmt(OracleRoll(outcomes))
    /\ pc' = "sent"
    /\ UNCHANGED <<content, spec, drawn, popped>>

NextOracle ==
    \/ OracleRollInvalid
    \/ OracleRollTooMany
    \/ OracleRollSend

SpecOracle == InitOracle /\ [][NextOracle]_vars

----------------------------------------------------------------------------
(* Properties of the custom_roll command, checked under Spec. *)

\* the roll specification text of the message, once the handler read it
HasText == pc # "start" /\ SplitOnce(content, " ").found
Text == spec_raw(content)
IsTerm(tok) == tok.type \in {"XdY", "Bonus"}

\* C1: for every text parse accepts, CustomRoll::random does not fail and
\* every rolled die has 1 <= roll <= size.
C1_RandomNeverFails ==
    /\ pc # "panic"
    /\ roll.kind = "custom" =>
          \A i \in 1..Len(roll.rolls) :
             1 <= roll.rolls[i].roll /\ roll.rolls[i].roll <= roll.rolls[i].size

\* C2: parse fails for every text whose last token is a '+'.
C2_TrailingPlusFails ==
    (HasText /\ Tokens(Text) # <<>> /\ Tokens(Text)[Len(Tokens(Text))] = TokPlus)
        => ~spec.ok

\* the stable sort by descending size: insertion of each element after the
\* elements that are not smaller
RECURSIVE InsertStable(_, _)
InsertStable(sorted, x) ==
    IF sorted = <<>> THEN <<x>>
    ELSE IF Head(sorted).size >= x.size
         THEN <<Head(sorted)>> \o InsertStable(Tail(sorted), x)
         ELSE <<x>> \o sorted

RECURSIVE StableSortDesc(_)
StableSortDesc(rolls) ==
    IF rolls = <<>> THEN <<>>
    ELSE InsertStable(StableSortDesc(Slice(rolls, 1, Len(rolls) - 1)),
                      rolls[Len(rolls)])

CountOf(seq, x) == Cardinality({i \in 1..Len(seq) : seq[i] = x})

RECURSIVE ExpectedDice(_)
ExpectedDice(toks) ==
    IF toks = <<>> THEN <<>>
    ELSE (IF Head(toks).type = "XdY"
          THEN [i \in 1..Head(toks).a |-> Head(toks).b] ELSE <<>>)
         \o ExpectedDice(Tail(toks))

ExpectedBonuses(toks) ==
    LET idx == {i \in 1..Len(toks) : toks[i].type = "Bonus"}
        nth(k) == CHOOSE i \in idx : Cardinality({j \in idx : j < i}) = k - 1
    IN  [k \in 1..Cardinality(idx) |-> toks[nth(k)].a]

\* C7: when parse succeeds, the dice list is count copies of size for each
\* dice group in input order, and the bonus list is the bare numbers in
\* input order.
C7_ListsInInputOrder ==
    (HasText /\ spec.ok) =>
        /\ spec.dice = ExpectedDice(Tokens(Text))
        /\ spec.bonuses = ExpectedBonuses(Tokens(Text))

\* a bonus before a dice group of several dice
C7_Witness ==
    /\ pc = "parsed"
    /\ Len(Tokens(Text)) = 3
    /\ Tokens(Text)[1].type = "Bonus"
    /\ Tokens(Text)[3].type = "XdY"
    /\ Tokens(Text)[3].a >= 2
    /\ spec.bonuses # <<>>

\* a Plus or an error token where a term is expected
BadTerm(toks) ==
    \/ toks # <<>> /\ toks[1].type \in {"Plus", "Error"}
    \/ \E i \in 1..(Len(toks) - 1) :
          toks[i] = TokPlus /\ toks[i + 1].type \in {"Plus", "Error"}

\* a term directly followed by something other than Plus
BadSeparator(toks) ==
    \E i \in 1..(Len(toks) - 1) : IsTerm(toks[i]) /\ toks[i + 1] # TokPlus

\* C8: parse fails, returning no RollSpec, when a Plus or an error token
\* stands where a term is expected or a term is followed by something other
\* than Plus.
C8_GrammarErrorsFail ==
    (HasText /\ (BadTerm(Tokens(Text)) \/ BadSeparator(Tokens(Text))))
        => (pc = "replied" /\ spec = ParseErr)

\* two terms with no separator, nothing else wrong
C8_Witness ==
    /\ pc = "replied"
    /\ HasText
    /\ Len(Tokens(Text)) = 2
    /\ Tokens(Text)[1].type = "XdY" /\ Tokens(Text)[1].a > 0
    /\ IsTerm(Tokens(Text)[2])

\* no dice group of the tokens has a count above 0
NoDiceNamed(toks) ==
    \A i \in 1..Len(toks) : toks[i].type = "XdY" => toks[i].a = 0

\* C9: every RollSpec parse returns has a die; texts that name no die are
\* rejected; the pop in CustomRoll's fmt removes the " +" of a dice term.
C9_DiceNonEmpty ==
    /\ (HasText /\ spec.ok) => Len(spec.dice) >= 1
    /\ (HasText /\ NoDiceNamed(Tokens(Text))) => pc = "replied"
    /\ (pc = "sent" /\ roll.bonus = 0) => popped = Piece(" +", 0, 0)

\* a dice group of count 0 and a bonus, well separated
C9_Witness ==
    /\ pc = "replied"
    /\ HasText
    /\ Len(Tokens(Text)) = 3
    /\ Tokens(Text)[1].type = "XdY" /\ Tokens(Text)[1].a = 0
    /\ Tokens(Text)[2] = TokPlus
    /\ Tokens(Text)[3].type = "Bonus"

\* the value of a run of digits
RECURSIVE DecimalValue(_)
DecimalValue(digits) ==
    IF digits = <<>> THEN 0
    ELSE DigitVal(digits[Len(digits)])
         + 10 * DecimalValue(Slice(digits, 1, Len(digits) - 1))

\* a maximal run of digits of the text is a number above InputTypeMax
HasOverflowingNumber(s) ==
    \E i, j \in 1..Len(s) :
       /\ i <= j
       /\ \A k \in i..j : s[k] \in Digits
       /\ i = 1 \/ s[i - 1] \notin Digits
       /\ j = Len(s) \/ s[j + 1] \notin Digits
       /\ DecimalValue(Slice(s, i, j)) > InputTypeMax

\* C10: a count, size or bare number above 255 becomes an error token and
\* parse fails, wherever it stands; every count, size and bonus of a
\* returned RollSpec is in 0..255.
C10_OverflowRejected ==
    /\ (HasText /\ HasOverflowingNumber(Text)) =>
          /\ Tokens(Text)[Len(Tokens(Text))] = TokError
          /\ ~spec.ok
    /\ (HasText /\ spec.ok) =>
          /\ \A i \in 1..Len(spec.dice) : spec.dice[i] \in 0..InputTypeMax
          /\ \A i \in 1..Len(spec.bonuses) : spec.bonuses[i] \in 0..InputTypeMax
          /\ \A i \in 1..Len(Tokens(Text)) :
                /\ Tokens(Text)[i].a \in 0..InputTypeMax
                /\ Tokens(Text)[i].b \in 0..InputTypeMax

\* a bare number above 255 after a dice group and a separator
C10_Witness ==
    /\ pc = "replied"
    /\ HasText
    /\ HasOverflowingNumber(Text)
    /\ Len(Tokens(Text)) = 3
    /\ Tokens(Text)[1].type = "XdY" /\ Tokens(Text)[1].a > 0
    /\ Tokens(Text)[2] = TokPlus

----------------------------------------------------------------------------
(* Properties of the oracle_roll command, checked under SpecOracle. *)

\* the number of draws the message asks for
RequestedDraws(c) ==
    IF Args(c) = <<>> THEN 1 ELSE DecimalValue(Args(c)[1])

\* C4: every OracleRoll of the oracle_roll command has at least one value,
\* as many values as requested, each in 1..100.
C4_OracleNonEmpty ==
    (pc = "sent" /\ roll.kind = "oracle") =>
        /\ Len(roll.outcomes) >= 1
        /\ Len(roll.outcomes) = RequestedDraws(content)
        /\ \A i \in 1..Len(roll.outcomes) : roll.outcomes[i] \in 1..100

----------------------------------------------------------------------------
(* Properties of action and progress rolls, checked under SpecRolls. *)

ScoreOf(r) ==
    IF r.kind = "action" THEN ActionRoll_score(r) ELSE ProgressRoll_score(r)

OutcomeOfRoll(r) ==
    IF r.kind = "action" THEN ActionRoll_outcome(r) ELSE ProgressRoll_outcome(r)

Swapped(r) ==
    [r EXCEPT !.challenge_dice = <<r.challenge_dice[2], r.challenge_dice[1]>>]

\* the outcome by the number of challenge values strictly below the score
ExpectedOutcome(score, c1, c2) ==
    LET below == Cardinality({i \in 1..2 : <<c1, c2>>[i] < score})
    IN  IF below = 0 THEN "Miss" ELSE IF below = 1 THEN "WeakHit" ELSE "StrongHit"

IsScoredRoll == pc = "sent" /\ roll.kind \in {"action", "progress"} /\ roll.bonus # None

\* C5: with a score, the outcome of an action or progress roll is Miss,
\* WeakHit or StrongHit as 0, 1 or 2 challenge dice are strictly below the
\* score, is the same with the challenge dice swapped, and is the outcome
\* the reply shows.
C5_OutcomeByStrictCount ==
    IsScoredRoll =>
        /\ OutcomeOfRoll(roll) = ExpectedOutcome(ScoreOf(roll),
                                     roll.challenge_dice[1], roll.challenge_dice[2])
        /\ OutcomeOfRoll(Swapped(roll)) = OutcomeOfRoll(roll)
        /\ OutcomeOfRoll(roll) # "unreachable"
        /\ \E i \in 1..Len(response) :
              response[i].kind = Outcome_fmt(OutcomeOfRoll(roll))

\* an action roll with one challenge die equal to the score, one below it
C5_Witness ==
    /\ IsScoredRoll
    /\ roll.kind = "action"
    /\ roll.challenge_dice[1] = ScoreOf(roll)
    /\ roll.challenge_dice[2] < ScoreOf(roll)
    /\ OutcomeOfRoll(roll) = "WeakHit"

\* C6: score and outcome are None exactly when the bonus is absent; with a
\* bonus the action score is min(action_die + bonus, 10) and the progress
\* score min(progress, 10), never above 10, the sum never overflowing.
C6_ScoreClamped ==
    (pc = "sent" /\ roll.kind \in {"action", "progress"}) =>
        /\ ScoreOf(roll) = None <=> roll.bonus = None
        /\ OutcomeOfRoll(roll) = "None" <=> roll.bonus = None
        /\ roll.bonus # None =>
              LET sum == IF roll.kind = "action"
                         THEN roll.action_die + roll.bonus ELSE roll.bonus
              IN  /\ ScoreOf(roll) # Overflow
                  /\ ScoreOf(roll) = (IF sum < 10 THEN sum ELSE 10)
                  /\ ScoreOf(roll) \in 0..10
                  /\ roll.bonus \in 0..InputTypeMax

\* the largest sum: an action die of 6 and a bonus of 255
C6_Witness ==
    /\ pc = "sent"
    /\ roll.kind = "action"
    /\ roll.action_die = 6
    /\ roll.bonus = InputTypeMax
    /\ ScoreOf(roll) = 10

----------------------------------------------------------------------------
(* Properties of CustomRoll::dice, checked under Spec. *)

RECURSIVE SumCounts(_)
SumCounts(groups) ==
    IF groups = <<>> THEN 0 ELSE Head(groups).count + SumCounts(Tail(groups))

\* C11: for every CustomRoll of CustomRoll::random, dice() does not reach its
\* panic, its groups have strictly descending sizes and counts of at least
\* 1, and the counts add up to the number of rolled dice.
C11_DiceGroups ==
    roll.kind = "custom" =>
        LET groups == CustomRoll_dice(roll)
        IN  /\ pc = "sent"
            /\ groups # DicePanic
            /\ \A i \in 1..Len(groups) : ~groups[i].panic /\ groups[i].count >= 1
            /\ \A i, j \in 1..Len(groups) :
                  i < j => groups[i].size > groups[j].size
            /\ SumCounts(groups) = Len(roll.rolls)
            /\ \A i \in 1..Len(groups) :
                  response[2 * i] = Piece(" {}d{}", groups[i].count, groups[i].size)

\* three dice drawn smaller size first, in two groups
C11_Witness ==
    /\ roll.kind = "custom"
    /\ Len(drawn) = 3
    /\ drawn[1].size < drawn[2].size
    /\ Len(CustomRoll_dice(roll)) = 2
    /\ CustomRoll_dice(roll)[1].count = 2

----------------------------------------------------------------------------
(* Properties of the action_roll command, checked under SpecRolls. *)

\* every argument of the message is an 8-bit number
AllArgsParse(c) ==
    \A i \in 1..Len(Args(c)) : ParseInputType(Args(c)[i]).ok

\* the arithmetic sum of the arguments
RECURSIVE SumOfArgs(_)
SumOfArgs(args) ==
    IF args = <<>> THEN 0
    ELSE DecimalValue(Head(args)) + SumOfArgs(Tail(args))

\* C12: when every argument of action_roll parses as an 8-bit number, the
\* roll is made and its bonus is the arithmetic sum of the arguments: the
\* accumulation does not overflow, wrap or abort.
C12_BonusIsSum ==
    (/\ pc # "start"
     /\ Command(content) = ActionRollWord
     /\ Args(content) # <<>>
     /\ AllArgsParse(content))
        => (pc = "sent" /\ roll.bonus = SumOfArgs(Args(content)))

====
